---- MODULE Spec2Model ----
(***************************************************************************)
(* A model of the OCR extraction pipeline: DocumentProcessor               *)
(* (utils/document_processor.py), the Ollama gateway (utils/llm_client.py),*)
(* the rasterizer (utils/pdf_processor.py) and the output writers.         *)
(*                                                                         *)
(* Text is modelled at token level: a text is a sequence of tokens, each   *)
(* token standing for one lexical unit (a brace, a quote, a word).  JSON   *)
(* separators (commas, white space) are not tokens.  A Python string is a  *)
(* sequence of tokens; its "characters" are its tokens.                    *)
(***************************************************************************)
EXTENDS Integers, Sequences, FiniteSets, TLC

\* ------------------------------------------------------------------------
\* Bounds of the model
\* ------------------------------------------------------------------------

\* the largest number of pages a rasterized document has
MaxPages == 2

\* the largest number of chunks a backend text is made of (SpecGateway)
MaxChunks == 3

\* the table entries of a call of format_table_output
MaxTables == 2

\* the largest number of pages of a document that is processed twice
MaxRerunPages == 1

\* the largest page index whose file name is built (SpecPageNames)
MaxPageIndex == 1001

\* ------------------------------------------------------------------------
\* Tokens and Python string operations
\* ------------------------------------------------------------------------

LBRACE == "{"
RBRACE == "}"
LBRACKET == "["
RBRACKET == "]"
QUOTE == "'"
BACKSLASH == "\\"
COLON == ":"

\* tok in text
Contains(text, tok) == \E i \in 1..Len(text) : text[i] = tok

\* str.find(tok): the 0-based index of the first occurrence, -1 if none
Find(text, tok) ==
    IF Contains(text, tok)
    THEN (CHOOSE i \in 1..Len(text) :
             text[i] = tok /\ \A j \in 1..(i-1) : text[j] # tok) - 1
    ELSE -1

\* str.rfind(tok): the 0-based index of the last occurrence, -1 if none
RFind(text, tok) ==
    IF Contains(text, tok)
    THEN (CHOOSE i \in 1..Len(text) :
             text[i] = tok /\ \A j \in (i+1)..Len(text) : text[j] # tok) - 1
    ELSE -1

\* text[a:b] for 0-based a, b >= 0 (empty when b <= a)
Slice(text, a, b) == SubSeq(text, a + 1, b)

\* ------------------------------------------------------------------------
\* JSON values.  A value is a record [t, v]: t its Python type, v a sequence
\* of token sequences: for a str its characters (one element), for a list
\* the JSON text of each element, for a dict (nested) its JSON text, for a
\* number or a boolean its literal.  A top-level dict is a sequence of
\* members [k, t, v] in insertion order, k the key's characters.
\* ------------------------------------------------------------------------

Numerals == {"5"}
Booleans == {"true", "false"}

ParseFail == [ok |-> FALSE, t |-> "", v |-> <<>>, d |-> <<>>, nxt |-> 0]

Parsed(type, val, dict, nxt) ==
    [ok |-> TRUE, t |-> type, v |-> val, d |-> dict, nxt |-> nxt]

HasKey(d, k) == \E i \in 1..Len(d) : d[i].k = k

Get(d, k) == LET i == CHOOSE j \in 1..Len(d) : d[j].k = k
             IN  [t |-> d[i].t, v |-> d[i].v]

\* d[k] = val: an existing key keeps its place, a new key goes last
DictSet(d, k, val) ==
    IF HasKey(d, k)
    THEN [i \in 1..Len(d) |->
             IF d[i].k = k THEN [t |-> val.t, v |-> val.v, k |-> k] ELSE d[i]]
    ELSE Append(d, [t |-> val.t, v |-> val.v, k |-> k])

RECURSIVE ScanString(_, _, _)
\* the string whose characters start at s[q] (after the opening quote)
ScanString(s, q, acc) ==
    IF q > Len(s) THEN ParseFail
    ELSE IF s[q] = QUOTE THEN Parsed("str", <<acc>>, <<>>, q + 1)
    ELSE IF s[q] = BACKSLASH
         THEN IF q + 1 <= Len(s) /\ s[q + 1] \in {QUOTE, BACKSLASH}
              THEN ScanString(s, q + 2, Append(acc, s[q + 1]))
              ELSE ParseFail
    ELSE ScanString(s, q + 1, Append(acc, s[q]))

RECURSIVE ParseValue(_, _)
RECURSIVE ParseElements(_, _, _)
RECURSIVE ParseMembers(_, _, _, _)

\* the JSON value that starts at s[p]
ParseValue(s, p) ==
    IF p > Len(s) THEN ParseFail
    ELSE IF s[p] = "null" THEN Parsed("null", <<>>, <<>>, p + 1)
    ELSE IF s[p] \in Booleans THEN Parsed("bool", <<(<<s[p]>>)>>, <<>>, p + 1)
    ELSE IF s[p] \in Numerals THEN Parsed("num", <<(<<s[p]>>)>>, <<>>, p + 1)
    ELSE IF s[p] = QUOTE THEN ScanString(s, p + 1, <<>>)
    ELSE IF s[p] = LBRACKET THEN ParseElements(s, p + 1, <<>>)
    ELSE IF s[p] = LBRACE THEN ParseMembers(s, p, p + 1, <<>>)
    ELSE ParseFail

\* the elements of a list, from s[p] to its closing bracket
ParseElements(s, p, acc) ==
    IF p > Len(s) THEN ParseFail
    ELSE IF s[p] = RBRACKET THEN Parsed("list", acc, <<>>, p + 1)
    ELSE LET e == ParseValue(s, p)
         IN  IF ~e.ok THEN ParseFail
             ELSE ParseElements(s, e.nxt, Append(acc, SubSeq(s, p, e.nxt - 1)))

\* the members of a dict opened at s[start], from s[p] to its closing brace
ParseMembers(s, start, p, acc) ==
    IF p > Len(s) THEN ParseFail
    ELSE IF s[p] = RBRACE
         THEN Parsed("dict", <<SubSeq(s, start, p)>>, acc, p + 1)
    ELSE IF s[p] # QUOTE THEN ParseFail
    ELSE LET key == ScanString(s, p + 1, <<>>)
         IN  IF ~key.ok \/ key.nxt > Len(s) THEN ParseFail
             ELSE IF s[key.nxt] # COLON THEN ParseFail
             ELSE LET val == ParseValue(s, key.nxt + 1)
                  IN  IF ~val.ok THEN ParseFail
                      ELSE ParseMembers(s, start, val.nxt,
                                        DictSet(acc, key.v[1], val))

\* json.loads(s): ok = FALSE stands for JSONDecodeError
JsonLoads(s) ==
    LET r == ParseValue(s, 1)
    IN  IF r.ok /\ r.nxt = Len(s) + 1 THEN r ELSE ParseFail

RECURSIVE Escape(_)
\* the characters of a string as JSON writes them between quotes
Escape(chars) ==
    IF chars = <<>> THEN <<>>
    ELSE (IF Head(chars) \in {QUOTE, BACKSLASH}
          THEN <<BACKSLASH, Head(chars)>> ELSE <<Head(chars)>>)
         \o Escape(Tail(chars))

\* the JSON text of the string with these characters
StrJson(chars) == <<QUOTE>> \o Escape(chars) \o <<QUOTE>>

RECURSIVE Flatten(_)
Flatten(seqs) ==
    IF seqs = <<>> THEN <<>> ELSE Head(seqs) \o Flatten(Tail(seqs))

\* the JSON text of a value
DumpValue(val) ==
    IF val.t = "null" THEN <<"null">>
    ELSE IF val.t = "str" THEN StrJson(val.v[1])
    ELSE IF val.t = "list" THEN <<LBRACKET>> \o Flatten(val.v) \o <<RBRACKET>>
    ELSE val.v[1]

RECURSIVE DumpMembers(_)
DumpMembers(d) ==
    IF d = <<>> THEN <<>>
    ELSE StrJson(Head(d).k) \o <<COLON>> \o DumpValue(Head(d))
         \o DumpMembers(Tail(d))

\* json.dump(d, f, indent=2) of a dict: the tokens written to the file
JsonDump(d) == <<LBRACE>> \o DumpMembers(d) \o <<RBRACE>>

\* values as Python builds them
PyStr(chars) == [t |-> "str", v |-> <<chars>>]
PyList(elems) == [t |-> "list", v |-> elems]


\* ------------------------------------------------------------------------
\* Model gateway: OllamaClient (utils/llm_client.py)
\* ------------------------------------------------------------------------

\* what one generation request can come to.  "text": the backend answered a
\* JSON object whose "response" is the text; "no_response_field": a JSON
\* object without "response"; the others make process_image's outer try fail
BackendFailures ==
    {"image_unreadable", "connection_error", "http_error", "body_not_json",
     "body_not_object", "response_not_text"}

Failure(kind) == [kind |-> kind, response |-> <<>>]
Answer(text) == [kind |-> "text", response |-> text]
NoResponseField == [kind |-> "no_response_field", response |-> <<>>]

\* the value process_image returns from its except branch (lines 117-122)
FailureResult_WithData(e) == [success |-> FALSE, data |-> <<>>, error |-> e]
FailureResult(e) == [success |-> FALSE, error |-> e]

\* the degraded payload {"text": text_content} (lines 104-108, 111-115)
TextPayload(text_content) == <<[t |-> "str", v |-> <<text_content>>, k |-> <<"text">>]>>

\* text_content[json_start:json_end] (lines 93-95)
JsonSubstring_FirstBrace(text_content) ==
    Slice(text_content, Find(text_content, LBRACE), Find(text_content, RBRACE) + 1)
JsonSubstring(text_content) ==
    Slice(text_content, Find(text_content, LBRACE), RFind(text_content, RBRACE) + 1)

\* OllamaClient.process_image, given what its request comes to
process_image(b) ==
    IF b.kind \in BackendFailures THEN FailureResult(b.kind)
    ELSE LET text_content == b.response   \* result.get("response", "")
         IN  IF Contains(text_content, LBRACE) /\ Contains(text_content, RBRACE)
             THEN LET parsed_data == JsonLoads(JsonSubstring(text_content))
                  IN  IF parsed_data.ok
                      THEN [success |-> TRUE, data |-> parsed_data.d,
                            raw_response |-> text_content]
                      ELSE [success |-> TRUE, data |-> TextPayload(text_content),
                            raw_response |-> text_content]
             ELSE [success |-> TRUE, data |-> TextPayload(text_content),
                   raw_response |-> text_content]

\* the prompt types of config.PROMPTS
PromptTypes == {"document_analysis", "text_extraction", "table_extraction"}

analyze_document_type(b) == process_image(b)
extract_text(b) == process_image(b)
extract_table(b) == process_image(b)

\* JSON text helpers to write backend answers with
Key(k) == <<QUOTE, k, QUOTE, COLON>>
Lit(s) == <<QUOTE, s, QUOTE>>
Obj(members) == <<LBRACE>> \o members \o <<RBRACE>>
Arr(elems) == <<LBRACKET>> \o elems \o <<RBRACKET>>

\* the pieces backend texts are made of in SpecGateway
Chunks ==
    { <<LBRACE>>, <<RBRACE>>, <<"prose">>, <<"Table">>,
      Key("text") \o Lit("A") }

RECURSIVE ChunkTexts(_)
ChunkTexts(n) ==
    IF n = 0 THEN {<<>>}
    ELSE LET shorter == ChunkTexts(n - 1)
         IN  shorter \cup {t \o c : t \in shorter, c \in Chunks}

GatewayBackend ==
    {Failure(k) : k \in BackendFailures} \cup {NoResponseField}
    \cup {Answer(t) : t \in ChunkTexts(MaxChunks)}


\* ------------------------------------------------------------------------
\* Configuration (config.py) and file types
\* ------------------------------------------------------------------------

ALLOWED_EXTENSIONS == {"pdf", "jpg", "jpeg", "png", "tiff", "docx"}

\* paragraphs per placeholder page in docx_to_images
ParagraphsPerPage == 10

\* str.lower() of a token; a token without an entry has no upper-case letter
Lower(tok) ==
    CASE tok = "PNG" -> "png"
      [] tok = "Table" -> "table"
      [] tok = "Tables" -> "tables"
      [] tok = "TABLE" -> "table"
      [] OTHER -> tok

\* the suffixes (without the dot) of the documents processed
Suffixes == ALLOWED_EXTENSIONS \cup {"txt", "PNG", ""}

\* DocumentProcessor.get_file_type: the lower-cased extension
get_file_type(path) == Lower(path.suffix)

\* the branch process_document takes for an extension (lines 58-76)
Handler_NoValidation(file_extension) ==
    IF file_extension \in {"jpg", "jpeg", "png", "tiff"} THEN "_process_image"
    ELSE IF file_extension = "docx" THEN "_process_docx"
    ELSE "_process_pdf"
Handler(file_extension) ==
    IF file_extension \notin ALLOWED_EXTENSIONS THEN "unsupported"
    ELSE IF file_extension = "pdf" THEN "_process_pdf"
    ELSE IF file_extension \in {"jpg", "jpeg", "png", "tiff"} THEN "_process_image"
    ELSE IF file_extension = "docx" THEN "_process_docx"
    ELSE "unsupported"

\* ------------------------------------------------------------------------
\* Page rasterizer: PDFProcessor (utils/pdf_processor.py)
\* ------------------------------------------------------------------------

\* the paths page_001.png .. page_n.png, each written as its page number
PagePaths(n) == [k \in 1..n |-> k]

\* what a conversion can come to: the source cannot be opened or rendered,
\* or it has `pages` pages (paragraphs, for a docx) and saving page
\* save_fails_at raises (0: every save succeeds)
PdfOutcomes ==
    {[opened |-> FALSE, pages |-> 0, save_fails_at |-> 0]}
    \cup {[opened |-> TRUE, pages |-> n, save_fails_at |-> f] :
             n \in 0..MaxPages, f \in 0..MaxPages}

DocxOutcomes ==
    {[opened |-> FALSE, pages |-> 0, save_fails_at |-> 0]}
    \cup {[opened |-> TRUE, pages |-> n, save_fails_at |-> f] :
             n \in 0..(ParagraphsPerPage * MaxPages), f \in 0..MaxPages}

\* the returned list and the page files left in the folder
Rasterized(opened, n, save_fails_at) ==
    IF ~opened THEN [image_paths |-> <<>>, saved |-> {}]
    ELSE IF save_fails_at \in 1..n
         THEN [image_paths |-> <<>>, saved |-> 1..(save_fails_at - 1)]
         ELSE [image_paths |-> PagePaths(n), saved |-> 1..n]

\* PDFProcessor.pdf_to_images
pdf_to_images(o) == Rasterized(o.opened, o.pages, o.save_fails_at)

\* chunks = [paragraphs[i:i+10] for i in range(0, len(paragraphs), 10)]
DocxChunks_Floor(paragraphs) == paragraphs \div ParagraphsPerPage
DocxChunks(paragraphs) ==
    Cardinality({i \in 0..(paragraphs - 1) : i % ParagraphsPerPage = 0})

\* PDFProcessor.docx_to_images
docx_to_images(o) == Rasterized(o.opened, DocxChunks(o.pages), o.save_fails_at)

\* ------------------------------------------------------------------------
\* Page analysis and folding: DocumentProcessor
\* ------------------------------------------------------------------------

Unset == [unset |-> TRUE]
NonePath == <<>>

HEADERS == <<"headers">>
CONTENT == <<"content">>
TEXT == <<"text">>

\* lower-case words that contain "table"
TableWords == {"table", "tables"}

\* "table" in analysis.get("raw_response", "").lower()
TableDetected_CaseSensitive(a) ==
    LET raw == IF "raw_response" \in DOMAIN a THEN a.raw_response ELSE <<>>
    IN  \E i \in 1..Len(raw) : raw[i] \in TableWords
TableDetected(a) ==
    LET raw == IF "raw_response" \in DOMAIN a THEN a.raw_response ELSE <<>>
    IN  \E i \in 1..Len(raw) : Lower(raw[i]) \in TableWords

\* if text_result["success"]: (lines 125, 255)
TextSucceeded_Always(r) == TRUE
TextSucceeded(r) == r.success

\* if table_result["success"]: (lines 118, 189, 248)
TableSucceeded_Parsed(r) == r.success /\ ~HasKey(r.data, TEXT)
TableSucceeded(r) == r.success

\* if not image_paths: (lines 97, 229)
ConversionFailed_Never(paths) == FALSE
ConversionFailed(paths) == paths = <<>>

\* whether Python can iterate over the value (list.extend raises TypeError
\* otherwise)
Iterable(val) == val.t \in {"list", "str", "dict"}

\* the items iterating over a value yields, each as its JSON text: the
\* elements of a list, the characters of a str, the keys of a dict
Items(val) ==
    IF val.t = "list" THEN val.v
    ELSE IF val.t = "str"
         THEN [i \in 1..Len(val.v[1]) |-> StrJson(<<val.v[1][i]>>)]
    ELSE LET d == JsonLoads(val.v[1]).d
         IN  [i \in 1..Len(d) |-> StrJson(d[i].k)]

\* lst.extend(val)
list_extend_Prepend(lst, val) == PyList(Items(val) \o lst.v)
list_extend(lst, val) == PyList(lst.v \o Items(val))

\* lst.append(val)
list_append(lst, val) == PyList(Append(lst.v, DumpValue(val)))

\* text_data = {"headers": [], "content": []}
EmptyTextData ==
    <<[t |-> "list", v |-> <<>>, k |-> HEADERS],
      [t |-> "list", v |-> <<>>, k |-> CONTENT]>>

\* whether aggregating the payload raises TypeError (lines 134-137)
AggregateRaises(data) ==
    \/ HasKey(data, HEADERS) /\ ~Iterable(Get(data, HEADERS))
    \/ HasKey(data, CONTENT) /\ ~Iterable(Get(data, CONTENT))

\* "Aggregate text data" (lines 133-139, 263-269)
Aggregate(acc, data) ==
    LET h == IF HasKey(data, HEADERS)
             THEN DictSet(acc, HEADERS,
                          list_extend(Get(acc, HEADERS), Get(data, HEADERS)))
             ELSE acc
    IN  IF HasKey(data, CONTENT)
        THEN DictSet(h, CONTENT, list_extend(Get(h, CONTENT), Get(data, CONTENT)))
        ELSE IF HasKey(data, TEXT)
        THEN DictSet(h, CONTENT, list_append(Get(h, CONTENT), Get(data, TEXT)))
        ELSE h

\* where the run goes after a page of n: the loop's next page, or the code
\* after the loop
AfterPage_WriteInLoop(p, n) == [pc |-> "save_text", page |-> p]
AfterPage(p, n) ==
    IF p < n THEN [pc |-> "analyze", page |-> p + 1]
    ELSE [pc |-> "save_text", page |-> p]

\* ------------------------------------------------------------------------
\* Output formatter: format_table_output (utils/output_formatter.py) and the
\* pandas frames it builds.  Table payloads are values [t, v] whose cells
\* are scalars; the elements of a list are all of one kind (all lists, all
\* dicts or all scalars) and the members of a dict are lists or scalars.
\* ------------------------------------------------------------------------

ROWS == <<"rows">>
DATA == <<"data">>
VALUES == <<"values">>

\* a dict as a value
PyDict(d) == [t |-> "dict", v |-> <<JsonDump(d)>>]

RECURSIVE IntStr(_)
\* str(n): the decimal digits of a natural number
IntStr(n) ==
    LET digit == <<"0", "1", "2", "3", "4", "5", "6", "7", "8", "9">>[(n % 10) + 1]
    IN  IF n < 10 THEN <<digit>> ELSE Append(IntStr(n \div 10), digit)

\* a DataFrame: its column labels, whether they are integers (a RangeIndex)
\* rather than strings, and its rows of cells, each cell as its JSON text;
\* ok = FALSE stands for the constructor raising
Frame(int_labels, columns, cells) ==
    [ok |-> TRUE, int_labels |-> int_labels, columns |-> columns, cells |-> cells]
NoFrame == [ok |-> FALSE, int_labels |-> FALSE, columns |-> <<>>, cells |-> <<>>]
EmptyFrame == Frame(FALSE, <<>>, <<>>)

\* the labels 0 .. w-1
RangeLabels(w) == [i \in 1..w |-> IntStr(i - 1)]

Longest(lens) == CHOOSE n \in lens : \A m \in lens : m <= n

\* the keys of d that acc does not hold, in d's order
NewKeys(d, acc) ==
    SelectSeq([i \in 1..Len(d) |-> d[i].k],
              LAMBDA k : k \notin {acc[i] : i \in 1..Len(acc)})

RECURSIVE KeyUnion(_, _)
\* the keys of a list of dicts, in order of first appearance
KeyUnion(elems, acc) ==
    IF elems = <<>> THEN acc
    ELSE KeyUnion(Tail(elems), acc \o NewKeys(JsonLoads(Head(elems)).d, acc))

\* rows of lists: the labels 0 .. w-1 for the longest row's width w
RowsOfLists(rows, w) ==
    Frame(TRUE, RangeLabels(w),
          [i \in 1..Len(rows) |->
             [c \in 1..w |-> IF c <= Len(rows[i].v) THEN rows[i].v[c] ELSE <<"None">>]])

\* rows of dicts: a column per key
RowsOfDicts(rows, keys) ==
    Frame(FALSE, keys,
          [i \in 1..Len(rows) |->
             [c \in 1..Len(keys) |->
                IF HasKey(rows[i].d, keys[c])
                THEN DumpValue(Get(rows[i].d, keys[c]))
                ELSE <<"None">>]])

\* the frame of the rows, elems parsed
RowsFrame(elems, rows) ==
    IF rows[1].t = "list"
    THEN RowsOfLists(rows, Longest({Len(rows[i].v) : i \in 1..Len(rows)}))
    ELSE IF rows[1].t = "dict"
    THEN RowsOfDicts(rows, KeyUnion(elems, <<>>))
    ELSE Frame(TRUE, RangeLabels(1), [i \in 1..Len(elems) |-> <<elems[i]>>])

\* pd.DataFrame(list): rows of lists, of dicts or of scalars
ListFrame(elems) ==
    IF elems = <<>> THEN EmptyFrame
    ELSE RowsFrame(elems, [i \in 1..Len(elems) |-> JsonLoads(elems[i])])

\* pd.DataFrame(dict): a column per key; ValueError when every value is a
\* scalar or the lists differ in length
DictFrame(d) ==
    IF d = <<>> THEN EmptyFrame
    ELSE LET lists == {i \in 1..Len(d) : d[i].t = "list"}
             lens == {Len(d[i].v) : i \in lists}
         IN  IF lists = {} \/ Cardinality(lens) > 1 THEN NoFrame
             ELSE Frame(FALSE, [c \in 1..Len(d) |-> d[c].k],
                        [r \in 1..Longest(lens) |->
                           [c \in 1..Len(d) |->
                              IF d[c].t = "list" THEN d[c].v[r]
                              ELSE DumpValue(d[c])]])

\* pd.DataFrame(val), pd.DataFrame.from_dict(val): None gives an empty
\* frame, a str, a number or a boolean raises ValueError
DataFrame(val) ==
    IF val.t = "null" THEN EmptyFrame
    ELSE IF val.t = "list" THEN ListFrame(val.v)
    ELSE IF val.t = "dict" THEN DictFrame(JsonLoads(val.v[1]).d)
    ELSE NoFrame

\* pd.DataFrame(values, columns=headers) for a list of headers: ValueError
\* when the rows are not as long as the headers
Relabelled(data, values, headers, parsed) ==
    IF headers.t = "null" THEN data
    ELSE IF headers.t # "list" \/ values.t \notin {"list", "null"} THEN NoFrame
    ELSE IF data.columns # <<>> /\ Len(data.columns) # Len(parsed) THEN NoFrame
    ELSE Frame(\E c \in 1..Len(parsed) : parsed[c].t # "str",
               [c \in 1..Len(parsed) |->
                  IF parsed[c].t = "str" THEN parsed[c].v[1] ELSE headers.v[c]],
               data.cells)
DataFrameColumns(values, headers) ==
    Relabelled(DataFrame(values), values, headers,
               IF headers.t = "list"
               THEN [c \in 1..Len(headers.v) |-> JsonLoads(headers.v[c])]
               ELSE <<>>)

\* pd.DataFrame({"Error": [message]})
ErrorFrame(message) == Frame(FALSE, <<(<<"Error">>)>>, <<(<<Lit(message)>>)>>)

\* "Handle different table formats from LLM" (lines 82-104)
TableFrame_DataFirst(table_content) ==
    IF table_content.t = "list" THEN DataFrame(table_content)
    ELSE IF table_content.t = "dict"
    THEN LET d == JsonLoads(table_content.v[1]).d
         IN  IF HasKey(d, DATA) THEN DataFrame(Get(d, DATA))
             ELSE IF HasKey(d, ROWS) THEN DataFrame(Get(d, ROWS))
             ELSE IF HasKey(d, HEADERS) /\ HasKey(d, VALUES)
             THEN DataFrameColumns(Get(d, VALUES), Get(d, HEADERS))
             ELSE LET df == DataFrame(table_content)
                  IN  IF df.ok THEN df
                      ELSE ErrorFrame("Could not parse table data")
    ELSE ErrorFrame("Unexpected table data format")
\* lines 97-101: the direct conversion, or the error marker when it raises
DirectFrame(df) == IF df.ok THEN df ELSE ErrorFrame("Could not parse table data")
\* lines 86-101: a mapping d
DictTableFrame(table_content, d) ==
    IF HasKey(d, ROWS) THEN DataFrame(Get(d, ROWS))
    ELSE IF HasKey(d, DATA) THEN DataFrame(Get(d, DATA))
    ELSE IF HasKey(d, HEADERS) /\ HasKey(d, VALUES)
    THEN DataFrameColumns(Get(d, VALUES), Get(d, HEADERS))
    ELSE DirectFrame(DataFrame(table_content))
TableFrame(table_content) ==
    IF table_content.t = "list" THEN DataFrame(table_content)
    ELSE IF table_content.t = "dict"
    THEN DictTableFrame(table_content, JsonLoads(table_content.v[1]).d)
    ELSE ErrorFrame("Unexpected table data format")

\* "Auto-adjust column widths" (lines 111-114): len(column) raises
\* TypeError for an integer label
WidthRaises(df) == df.int_labels /\ df.columns # <<>>

\* df.to_excel(writer, sheet_name=sheet_name, index=False) (line 108)
to_excel(df, sheet_name) ==
    [columns |-> df.columns, cells |-> df.cells, name |-> sheet_name]

RECURSIVE WriteSheets(_, _, _)
RECURSIVE WriteSheet(_, _, _, _, _)
\* the loop of lines 77-114 from entry i on: the sheets in the workbook when
\* the loop is left, and whether an exception left it
WriteSheets(table_data, i, book) ==
    IF i > Len(table_data) THEN [sheets |-> book, raised |-> FALSE]
    ELSE WriteSheet(table_data, i, book,
                    IF "page" \in DOMAIN table_data[i] THEN table_data[i].page ELSE i,
                    TableFrame(IF "data" \in DOMAIN table_data[i]
                               THEN table_data[i].data ELSE PyDict(<<>>)))
\* lines 106-114 for entry i, whose frame is df; sheet_name is
\* f"Page {page_num}"
WriteSheet(table_data, i, book, page_num, df) ==
    IF ~df.ok THEN [sheets |-> book, raised |-> TRUE]
    ELSE IF WidthRaises(df)
    THEN [sheets |-> Append(book, to_excel(df, <<"Page ", page_num>>)),
          raised |-> TRUE]
    ELSE WriteSheets(table_data, i + 1,
                     Append(book, to_excel(df, <<"Page ", page_num>>)))

\* format_table_output(table_data, output_path), lines 68-121: what it
\* returns and the file it leaves.  The writer saves the workbook when the
\* with block is left, by an exception too; a workbook without a sheet
\* cannot be saved, which leaves a file that holds no workbook (sheets
\* empty).  writable = FALSE: the file cannot be created.
AfterLoop(loop, output_path) ==
    [sheets |-> loop.sheets,
     returned |-> IF loop.raised \/ loop.sheets = <<>> THEN NonePath ELSE output_path,
     created |-> TRUE]
format_table_output(table_data, output_path, writable) ==
    IF ~writable
    THEN [sheets |-> <<>>, returned |-> NonePath, created |-> FALSE]
    ELSE AfterLoop(WriteSheets(table_data, 1, <<>>), output_path)

\* the workbook file after format_table_output
Workbook(before, out) ==
    IF out.created THEN [sheets |-> out.sheets, exists |-> TRUE] ELSE before

\* ------------------------------------------------------------------------
\* Backend answers of the pipeline's runs, per task
\* ------------------------------------------------------------------------

ClassifyBackend ==
    { Failure("connection_error"),
      Answer(<<"a", "plain", "letter">>),
      Answer(<<"this", "document", "has", "a", "table", "of", "contents">>),
      Answer(<<"sure">> \o Obj(Key("type") \o Lit("invoice")
                                \o Key("contains") \o Lit("Tables"))) }

TextBackend ==
    { Failure("http_error"),
      Answer(<<"some", "words">>),
      Answer(<<"here">> \o Obj(Key("headers") \o Arr(Lit("a") \o Lit("b"))
                                \o Key("content") \o Arr(Lit("x")))
                        \o <<"done">>),
      Answer(Obj(Key("headers") \o Arr(Lit("a")) \o Key("text") \o Lit("z"))),
      Answer(Obj(Key("headers") \o <<"null">>)) }

TableBackend ==
    { Failure("connection_error"),
      Answer(<<"no", "table", "found">>),
      Answer(Obj(Key("rows") \o Arr(Arr(Lit("c") \o Lit("d"))))),
      Answer(Obj(Key("rows") \o Arr(Obj(Key("h") \o Lit("c"))))),
      Answer(Obj(Key("rows") \o <<"5">>)) }


\* ------------------------------------------------------------------------
\* State
\* ------------------------------------------------------------------------

VARIABLES
    file_path,          \* the document: [stem, suffix]
    pc,                 \* where process_document is
    image_paths,        \* the rasterizer's list of page images
    page,               \* the page in hand (i + 1 of the loop; 1 for an image)
    processed_image,    \* what preprocess_image returned: "temp" or "original"
    analysis,           \* the gateway results of the page in hand
    text_result,
    table_result,
    results,            \* the per-page list, the table entries, the text fold
    table_data,
    text_data,
    table_output_path,  \* _process_image's local of that name
    fs,                 \* the files of the document under the data folders
    trace,              \* the effects so far, in order
    io_error,           \* whether a write to the output folder failed
    result,             \* what process_document returned or raised
    gateway_call,       \* SpecGateway: the last gateway call and its result
    run,                \* 0: one call with any backend; 1, 2: the first and
                        \* the second call on one document with a
                        \* deterministic backend
    choices,            \* what the document and the backend gave in run 1,
                        \* in order; in run 2, what is still to be given
    first               \* the artifacts the first call left

vars == <<file_path, pc, image_paths, page, processed_image, analysis,
          text_result, table_result, results, table_data, text_data,
          table_output_path, fs, trace, io_error, result, gateway_call,
          run, choices, first>>

EmptyFs ==
    [ pages |-> {},          \* the page images in screenshots/<stem>
      json |-> [exists |-> FALSE, content |-> <<>>],
      xlsx |-> [sheets |-> <<>>, exists |-> FALSE],
      folder |-> FALSE,      \* screenshots/<stem>
      temp |-> FALSE ]       \* preprocess_image's temporary file

Event(op, p, task, ok) == [ok |-> ok, page |-> p, op |-> op, task |-> task]

Handling == Handler(get_file_type(file_path))
MultiPage == Handling \in {"_process_pdf", "_process_docx"}

\* the paths process_document names
TextOutputPath == <<file_path.stem, "json">>
TableOutputPath == <<file_path.stem, "xlsx">>
ScreenshotFolder == <<"screenshots", file_path.stem>>

InitRun ==
    /\ pc = "process_document"
    /\ image_paths = <<>>
    /\ page = 0
    /\ processed_image = "none"
    /\ analysis = Unset
    /\ text_result = Unset
    /\ table_result = Unset
    /\ results = <<>>
    /\ table_data = <<>>
    /\ text_data = <<>>
    /\ table_output_path = NonePath
    /\ fs = EmptyFs
    /\ trace = <<>>
    /\ io_error = FALSE
    /\ result = Unset
    /\ gateway_call = Unset
    /\ choices = <<>>
    /\ first = Unset

Init ==
    /\ file_path \in {[suffix |-> s, stem |-> "report"] : s \in Suffixes}
    /\ run = 0
    /\ InitRun

\* x is what the document or the backend gives at this point: anything in
\* a first call, what it gave at the same point of the first call in the
\* second
Chosen(x) == run = 2 => (choices # <<>> /\ Head(choices) = x)
Given(x) ==
    choices' = IF run = 1 THEN Append(choices, x)
               ELSE IF run = 2 THEN Tail(choices)
               ELSE choices

\* "document_type" of a success result (lines 157, 204, 287)
DocumentType_AlwaysPdf(handling) == "pdf"
DocumentType(handling) ==
    IF handling = "_process_pdf" THEN "pdf"
    ELSE IF handling = "_process_image" THEN "image"
    ELSE "docx"

\* the content of a file after open(path, 'w') and a write (lines 145-146,
\* 199-200, 275-276)
WriteFile_Append(before, written) == before \o written
WriteFile(before, written) == written

\* raise e out of process_document
Raise(e) ==
    /\ result' = [exception |-> e]
    /\ pc' = "done"

\* return r from process_document
Return(r) ==
    /\ result' = r
    /\ pc' = "done"

\* ------------------------------------------------------------------------
\* process_document and its three handlers, step by step
\* ------------------------------------------------------------------------

\* process_document, lines 55-76: validate the extension and dispatch
ProcessDocument ==
    /\ pc = "process_document"
    /\ IF Handling = "unsupported"
       THEN Return([success |-> FALSE,
                    error |-> <<"Unsupported file type: ",
                                get_file_type(file_path)>>])
       ELSE /\ pc' = Handling
            /\ result' = result
    /\ UNCHANGED <<file_path, image_paths, page, processed_image, analysis,
                   text_result, table_result, results, table_data, text_data,
                   table_output_path, fs, trace, io_error, gateway_call,
                   run, choices, first>>

\* what follows the rasterizer's answer r in _process_pdf / _process_docx
\* (lines 97-106, 229-239)
AfterConversion(o, r, kind_name, op) ==
    /\ Len(r.image_paths) <= (IF run = 0 THEN MaxPages ELSE MaxRerunPages)
    /\ Chosen(o)
    /\ Given(o)
    /\ image_paths' = r.image_paths
    /\ fs' = [fs EXCEPT !.folder = TRUE, !.pages = r.saved]
    /\ trace' = trace \o <<Event("mkdir", 0, "", TRUE),
                           Event(op, 0, "", r.image_paths # <<>>)>>
    /\ IF ConversionFailed(r.image_paths)
       THEN /\ Return([success |-> FALSE,
                       error |-> <<"Failed to convert ", kind_name, " to images">>])
            /\ UNCHANGED <<page, text_data>>
       ELSE /\ text_data' = EmptyTextData
            /\ result' = result
            /\ IF r.image_paths = <<>>
               THEN pc' = "save_text" /\ page' = page
               ELSE pc' = "analyze" /\ page' = 1
    /\ UNCHANGED <<file_path, processed_image, analysis, text_result,
                   table_result, results, table_data, table_output_path,
                   io_error, gateway_call, run, first>>

\* _process_pdf, lines 89-106
PdfToImages ==
    /\ pc = "_process_pdf"
    /\ \E o \in PdfOutcomes :
          AfterConversion(o, pdf_to_images(o), "PDF", "pdf_to_images")

\* _process_docx, lines 221-239
DocxToImages ==
    /\ pc = "_process_docx"
    /\ \E o \in DocxOutcomes :
          AfterConversion(o, docx_to_images(o), "DOCX", "docx_to_images")

\* _process_image, line 177: preprocess_image returns a temporary file, or
\* the original path when preprocessing fails
PreprocessImage ==
    /\ pc = "_process_image"
    /\ \E ok \in BOOLEAN :
          /\ processed_image' = IF ok THEN "temp" ELSE "original"
          /\ fs' = [fs EXCEPT !.temp = ok]
          /\ trace' = Append(trace, Event("preprocess_image", 0, "", ok))
    /\ page' = 1
    /\ pc' = "analyze"
    /\ UNCHANGED <<file_path, image_paths, analysis, text_result, table_result,
                   results, table_data, text_data, table_output_path,
                   io_error, result, gateway_call, run, choices, first>>

\* analysis = self.llm_client.analyze_document_type(...) (lines 110, 180, 243)
AnalyzeDocumentType ==
    /\ pc = "analyze"
    /\ \E b \in ClassifyBackend :
          /\ Chosen(b)
          /\ Given(b)
          /\ analysis' = analyze_document_type(b)
          /\ trace' = Append(trace, Event("gateway", page, "document_analysis",
                                          analysis'.success))
    /\ pc' = "extract_text"
    /\ UNCHANGED <<file_path, image_paths, page, processed_image, text_result,
                   table_result, results, table_data, text_data,
                   table_output_path, fs, io_error, result, gateway_call,
                   run, first>>

\* text_result = self.llm_client.extract_text(...) (lines 113, 183, 244)
ExtractText ==
    /\ pc = "extract_text"
    /\ \E b \in TextBackend :
          /\ Chosen(b)
          /\ Given(b)
          /\ text_result' = extract_text(b)
          /\ trace' = Append(trace, Event("gateway", page, "text_extraction",
                                          text_result'.success))
    /\ pc' = "table"
    /\ UNCHANGED <<file_path, image_paths, page, processed_image, analysis,
                   table_result, results, table_data, text_data,
                   table_output_path, fs, io_error, result, gateway_call,
                   run, first>>

\* the table branch taken (lines 116-122, 246-252; 187-193 for an image, where
\* format_table_output writes the workbook at once and swallows a failure)
ExtractTable ==
    /\ pc = "table"
    /\ TableDetected(analysis)
    /\ \E b \in TableBackend, ok \in BOOLEAN :
          /\ Chosen(b)
          /\ Given(b)
          /\ table_result' = extract_table(b)
          /\ LET entry == [data |-> PyDict(table_result'.data), page |-> page]
                 called == Event("gateway", page, "table_extraction",
                                 table_result'.success)
             IN  IF ~TableSucceeded(table_result')
                 THEN /\ trace' = Append(trace, called)
                      /\ UNCHANGED <<table_data, table_output_path, fs, io_error>>
                 ELSE IF MultiPage
                 THEN /\ table_data' = Append(table_data, entry)
                      /\ trace' = Append(trace, called)
                      /\ UNCHANGED <<table_output_path, fs, io_error>>
                 ELSE /\ table_output_path' = TableOutputPath
                      /\ trace' = trace \o <<called, Event("write_xlsx", 0, "", ok)>>
                      /\ fs' = [fs EXCEPT !.xlsx =
                                  Workbook(@, format_table_output(
                                               <<entry>>, TableOutputPath, ok))]
                      /\ io_error' = (io_error \/ ~ok)
                      /\ UNCHANGED table_data
    /\ pc' = IF MultiPage THEN "store" ELSE "save_image_text"
    /\ UNCHANGED <<file_path, image_paths, page, processed_image, analysis,
                   text_result, results, text_data, result, gateway_call,
                   run, first>>

\* the table branch not taken
SkipTable ==
    /\ pc = "table"
    /\ ~TableDetected(analysis)
    /\ pc' = IF MultiPage THEN "store" ELSE "save_image_text"
    /\ UNCHANGED <<file_path, image_paths, page, processed_image, analysis,
                   text_result, table_result, results, table_data, text_data,
                   table_output_path, fs, trace, io_error, result, gateway_call,
                   run, choices, first>>

\* "Store text extraction results" and the rest of the loop body (lines
\* 124-139, 254-269); the page's gateway results are dead after it
StorePage ==
    /\ pc = "store"
    /\ IF ~TextSucceeded(text_result)
       THEN /\ pc' = AfterPage(page, Len(image_paths)).pc
            /\ page' = AfterPage(page, Len(image_paths)).page
            /\ UNCHANGED <<results, text_data, result>>
       ELSE IF "data" \notin DOMAIN text_result
       THEN Raise("KeyError") /\ UNCHANGED <<page, results, text_data>>
       ELSE IF AggregateRaises(text_result.data)
       THEN Raise("TypeError") /\ UNCHANGED <<page, results, text_data>>
       ELSE /\ results' = Append(results,
                                 [page |-> page,
                                  text_data |-> text_result.data,
                                  table_detected |-> TableDetected(analysis)])
            /\ text_data' = Aggregate(text_data, text_result.data)
            /\ pc' = AfterPage(page, Len(image_paths)).pc
            /\ page' = AfterPage(page, Len(image_paths)).page
            /\ result' = result
    /\ analysis' = Unset
    /\ text_result' = Unset
    /\ table_result' = Unset
    /\ UNCHANGED <<file_path, image_paths, processed_image, table_data,
                   table_output_path, fs, trace, io_error, gateway_call,
                   run, choices, first>>

\* "Save text output as JSON" (lines 145-147, 275-277): open() raises when
\* the file cannot be written
SaveTextOutput ==
    /\ pc = "save_text"
    /\ \E ok \in BOOLEAN :
          /\ trace' = Append(trace, Event("write_json", 0, "", ok))
          /\ io_error' = (io_error \/ ~ok)
          /\ IF ok
             THEN /\ fs' = [fs EXCEPT !.json =
                              [exists |-> TRUE,
                               content |-> WriteFile(@.content, JsonDump(text_data))]]
                  /\ pc' = "save_table"
                  /\ result' = result
             ELSE /\ Raise("OSError")
                  /\ fs' = fs
    /\ UNCHANGED <<file_path, image_paths, page, processed_image, analysis,
                   text_result, table_result, results, table_data, text_data,
                   table_output_path, gateway_call, run, choices, first>>

\* "If tables detected, save to Excel" and the return (lines 149-163, 279-293)
SaveTableOutput ==
    /\ pc = "save_table"
    /\ \E ok \in BOOLEAN :
          IF table_data # <<>>
          THEN /\ trace' = Append(trace, Event("write_xlsx", 0, "", ok))
               /\ io_error' = (io_error \/ ~ok)
               /\ fs' = [fs EXCEPT !.xlsx =
                           Workbook(@, format_table_output(
                                        table_data, TableOutputPath, ok))]
          ELSE UNCHANGED <<trace, io_error, fs>>
    /\ Return([success |-> TRUE,
               results |-> results,
               table_output_path |-> IF table_data # <<>> THEN TableOutputPath
                                     ELSE NonePath,
               document_type |-> DocumentType(Handling),
               pages_processed |-> Len(image_paths),
               text_output_path |-> TextOutputPath,
               screenshot_folder |-> ScreenshotFolder])
    /\ UNCHANGED <<file_path, image_paths, page, processed_image, analysis,
                   text_result, table_result, results, table_data, text_data,
                   table_output_path, gateway_call, run, choices, first>>

\* _process_image, lines 195-208: the file is opened (and truncated) before
\* text_result["data"] is looked up
SaveImageOutput ==
    /\ pc = "save_image_text"
    /\ \E ok \in BOOLEAN :
          /\ trace' = Append(trace, Event("write_json", 0, "", ok))
          /\ io_error' = (io_error \/ ~ok)
          /\ IF ~ok
             THEN Raise("OSError") /\ fs' = fs
             ELSE IF "data" \notin DOMAIN text_result
             THEN /\ Raise("KeyError")
                  /\ fs' = [fs EXCEPT !.json =
                              [exists |-> TRUE, content |-> WriteFile(@.content, <<>>)]]
             ELSE /\ fs' = [fs EXCEPT !.json =
                              [exists |-> TRUE,
                               content |-> WriteFile(@.content,
                                                     JsonDump(text_result.data))]]
                  /\ Return([success |-> TRUE,
                             analysis |-> IF "data" \in DOMAIN analysis
                                          THEN analysis.data ELSE <<>>,
                             table_output_path |-> table_output_path,
                             document_type |-> DocumentType(Handling),
                             text_output_path |-> TextOutputPath])
    /\ UNCHANGED <<file_path, image_paths, page, processed_image, analysis,
                   text_result, table_result, results, table_data, text_data,
                   table_output_path, gateway_call, run, choices, first>>

Next ==
    \/ ProcessDocument
    \/ PdfToImages
    \/ DocxToImages
    \/ PreprocessImage
    \/ AnalyzeDocumentType
    \/ ExtractText
    \/ ExtractTable
    \/ SkipTable
    \/ StorePage
    \/ SaveTextOutput
    \/ SaveTableOutput
    \/ SaveImageOutput

Spec == Init /\ [][Next]_vars

\* ------------------------------------------------------------------------
\* The gateway on its own: every call of the three wrappers, for every
\* backend outcome over texts of at most MaxChunks chunks
\* ------------------------------------------------------------------------

InitGateway ==
    /\ file_path = [suffix |-> "pdf", stem |-> "report"]
    /\ run = 0
    /\ InitRun

Called(task, b, r) ==
    /\ gateway_call' = [result |-> r, task |-> task, backend |-> b]
    /\ UNCHANGED <<file_path, pc, image_paths, page, processed_image, analysis,
                   text_result, table_result, results, table_data, text_data,
                   table_output_path, fs, trace, io_error, result,
                   run, choices, first>>

CallAnalyzeDocumentType ==
    \E b \in GatewayBackend : Called("document_analysis", b, analyze_document_type(b))

CallExtractText ==
    \E b \in GatewayBackend : Called("text_extraction", b, extract_text(b))

CallExtractTable ==
    \E b \in GatewayBackend : Called("table_extraction", b, extract_table(b))

NextGateway ==
    \/ CallAnalyzeDocumentType
    \/ CallExtractText
    \/ CallExtractTable

SpecGateway == InitGateway /\ [][NextGateway]_vars

\* ------------------------------------------------------------------------
\* format_table_output on its own: every list of at most MaxTables table
\* entries over the payload shapes below, the file writable or not
\* ------------------------------------------------------------------------

\* the value a JSON text stands for
Val(text) == LET r == JsonLoads(text) IN [t |-> r.t, v |-> r.v]

TablePayloads ==
    { Val(Arr(Arr(Lit("c") \o Lit("d")))),
      Val(Arr(Obj(Key("h") \o Lit("c")))),
      Val(Lit("abc")),
      Val(<<"null">>),
      Val(Obj(<<>>)),
      Val(Obj(Key("rows") \o Arr(Arr(Lit("c") \o Lit("d"))))),
      Val(Obj(Key("data") \o Arr(Obj(Key("g") \o Lit("d")))
              \o Key("rows") \o Arr(Obj(Key("h") \o Lit("c"))))),
      Val(Obj(Key("headers") \o Arr(Lit("h")) \o Key("values") \o Arr(Arr(Lit("c")))
              \o Key("data") \o Arr(Obj(Key("g") \o Lit("d"))))),
      Val(Obj(Key("headers") \o Arr(Lit("h")) \o Key("values") \o Arr(Arr(Lit("c"))))),
      Val(Obj(Key("headers") \o Arr(Lit("h") \o Lit("g"))
              \o Key("values") \o Arr(Arr(Lit("c"))))),
      Val(Obj(Key("headers") \o Arr(Lit("h")))),
      Val(Obj(Key("rows") \o <<"5">>)),
      Val(Obj(Key("data") \o Lit("abc"))),
      Val(Obj(Key("h") \o Arr(Lit("c") \o Lit("d")))),
      Val(Obj(Key("text") \o Lit("no table found"))) }

\* table entries on pages in increasing order
RECURSIVE TableInputs(_, _)
TableInputs(n, from) ==
    IF n = 0 THEN {<<>>}
    ELSE {<<>>} \cup
         { <<[data |-> c, page |-> p]>> \o rest :
             c \in TablePayloads, p \in from..(from + 1),
             rest \in TableInputs(n - 1, from + 2) }

InitFormatter ==
    /\ file_path = [suffix |-> "pdf", stem |-> "report"]
    /\ pc = "format_table_output"
    /\ table_data \in TableInputs(MaxTables, 1)
    /\ image_paths = <<>>
    /\ page = 0
    /\ processed_image = "none"
    /\ analysis = Unset
    /\ text_result = Unset
    /\ table_result = Unset
    /\ results = <<>>
    /\ text_data = <<>>
    /\ table_output_path = NonePath
    /\ fs = EmptyFs
    /\ trace = <<>>
    /\ io_error = FALSE
    /\ result = Unset
    /\ gateway_call = Unset
    /\ run = 0
    /\ choices = <<>>
    /\ first = Unset

\* the call returns out
FormatterReturns(out) ==
    /\ fs' = [fs EXCEPT !.xlsx = Workbook(@, out)]
    /\ result' = [returned |-> out.returned]
    /\ io_error' = ~out.created

FormatTableOutput ==
    /\ pc = "format_table_output"
    /\ \E writable \in BOOLEAN :
          FormatterReturns(format_table_output(table_data, TableOutputPath, writable))
    /\ pc' = "done"
    /\ UNCHANGED <<file_path, image_paths, page, processed_image, analysis,
                   text_result, table_result, results, table_data, text_data,
                   table_output_path, trace, gateway_call, run, choices, first>>

NextFormatter == FormatTableOutput

SpecFormatter == InitFormatter /\ [][NextFormatter]_vars

\* ------------------------------------------------------------------------
\* process_document called twice on one document, the backend answering
\* the second call as it answered the first
\* ------------------------------------------------------------------------

InitRerun ==
    /\ file_path \in {[suffix |-> s, stem |-> "report"] : s \in Suffixes}
    /\ run = 1
    /\ InitRun

\* the second call: its locals are new, the files are as the first call
\* left them
RunAgain ==
    /\ pc = "done"
    /\ run = 1
    /\ run' = 2
    /\ first' = [json |-> fs.json, xlsx |-> fs.xlsx]
    /\ pc' = "process_document"
    /\ image_paths' = <<>>
    /\ page' = 0
    /\ processed_image' = "none"
    /\ analysis' = Unset
    /\ text_result' = Unset
    /\ table_result' = Unset
    /\ results' = <<>>
    /\ table_data' = <<>>
    /\ text_data' = <<>>
    /\ table_output_path' = NonePath
    /\ trace' = <<>>
    /\ result' = Unset
    /\ UNCHANGED <<file_path, fs, io_error, gateway_call, choices>>

NextRerun ==
    \/ Next
    \/ RunAgain

SpecRerun == InitRerun /\ [][NextRerun]_vars

\* ------------------------------------------------------------------------
\* process_document called twice by the one DocumentProcessor of the server
\* (server.py line 27), the second call on any upload of the same stem and
\* the backend answering as it likes
\* ------------------------------------------------------------------------

\* the second call, after a first one that returned success with the
\* output folder writable: the first one's document and result are kept
\* beside the files it left
RunAnother ==
    /\ pc = "done"
    /\ run = 1
    /\ "success" \in DOMAIN result /\ result.success
    /\ ~io_error
    /\ run' = 3
    /\ file_path' \in {[suffix |-> s, stem |-> file_path.stem] : s \in Suffixes}
    /\ first' = [suffix |-> file_path.suffix, result |-> result,
                 json |-> fs.json, xlsx |-> fs.xlsx]
    /\ pc' = "process_document"
    /\ image_paths' = <<>>
    /\ page' = 0
    /\ processed_image' = "none"
    /\ analysis' = Unset
    /\ text_result' = Unset
    /\ table_result' = Unset
    /\ results' = <<>>
    /\ table_data' = <<>>
    /\ text_data' = <<>>
    /\ table_output_path' = NonePath
    /\ trace' = <<>>
    /\ result' = Unset
    /\ choices' = <<>>
    /\ UNCHANGED <<fs, io_error, gateway_call>>

SpecSequence == InitRerun /\ [][Next \/ RunAnother]_vars

\* ------------------------------------------------------------------------
\* The rasterizer on its own: pdf_to_images and docx_to_images for every
\* document and fault, the output folder there or not, creatable or not
\* ------------------------------------------------------------------------

\* output_folder.mkdir(exist_ok=True, parents=True), before the try (lines
\* 43, 85)
MkdirRaises(exists, creatable) == ~exists /\ ~creatable

InitRasterizer ==
    /\ file_path \in {[suffix |-> s, stem |-> "report"] : s \in {"pdf", "docx"}}
    /\ pc = "rasterizer"
    /\ run = 1
    /\ fs \in {EmptyFs, [EmptyFs EXCEPT !.folder = TRUE]}
    /\ image_paths = <<>>
    /\ page = 0
    /\ processed_image = "none"
    /\ analysis = Unset
    /\ text_result = Unset
    /\ table_result = Unset
    /\ results = <<>>
    /\ table_data = <<>>
    /\ text_data = <<>>
    /\ table_output_path = NonePath
    /\ trace = <<>>
    /\ io_error = FALSE
    /\ result = Unset
    /\ gateway_call = Unset
    /\ choices = <<>>
    /\ first = Unset

\* a call on the document o that would convert to r
Rasterize(o, r, creatable) ==
    /\ pc = "rasterizer"
    /\ Given(o)
    /\ IF MkdirRaises(fs.folder, creatable)
       THEN /\ Raise("OSError")
            /\ UNCHANGED <<image_paths, fs>>
       ELSE /\ result' = [returned |-> r.image_paths]
            /\ pc' = "done"
            /\ image_paths' = r.image_paths
            /\ fs' = [fs EXCEPT !.folder = TRUE, !.pages = r.saved]
    /\ io_error' = MkdirRaises(fs.folder, creatable)
    /\ UNCHANGED <<file_path, page, processed_image, analysis, text_result,
                   table_result, results, table_data, text_data,
                   table_output_path, trace, gateway_call, run, first>>

CallPdfToImages ==
    /\ file_path.suffix = "pdf"
    /\ \E o \in PdfOutcomes, creatable \in BOOLEAN :
          Rasterize(o, pdf_to_images(o), creatable)

CallDocxToImages ==
    /\ file_path.suffix = "docx"
    /\ \E o \in DocxOutcomes, creatable \in BOOLEAN :
          Rasterize(o, docx_to_images(o), creatable)

NextRasterizer ==
    \/ CallPdfToImages
    \/ CallDocxToImages

SpecRasterizer == InitRasterizer /\ [][NextRasterizer]_vars


\* ------------------------------------------------------------------------
\* The page file names: the save loop of pdf_to_images / docx_to_images
\* (lines 55-60, 105-114) with the names as Python builds them, a name
\* being the sequence of its characters ("page_" and "png" standing for
\* their characters)
\* ------------------------------------------------------------------------

\* f"page_{i+1:03d}.png" for the page index i + 1 = k: at least three
\* digits, zero-padded
PageFileName(k) ==
    <<"page_">> \o [z \in 1..(3 - Len(IntStr(k))) |-> "0"] \o IntStr(k)
                \o <<".", "png">>

InitPageNames ==
    /\ file_path \in {[suffix |-> s, stem |-> "report"] : s \in {"pdf", "docx"}}
    /\ pc = "save_page"
    /\ run = 0
    /\ image_paths = <<>>
    /\ page = 0
    /\ processed_image = "none"
    /\ analysis = Unset
    /\ text_result = Unset
    /\ table_result = Unset
    /\ results = <<>>
    /\ table_data = <<>>
    /\ text_data = <<>>
    /\ table_output_path = NonePath
    /\ fs = EmptyFs
    /\ trace = <<>>
    /\ io_error = FALSE
    /\ result = Unset
    /\ gateway_call = Unset
    /\ choices = <<>>
    /\ first = Unset

\* one turn of the loop: the next page is named, saved and appended
SavePage ==
    /\ pc = "save_page"
    /\ page < MaxPageIndex
    /\ page' = page + 1
    /\ image_paths' = Append(image_paths, PageFileName(page + 1))
    /\ UNCHANGED <<file_path, pc, processed_image, analysis, text_result,
                   table_result, results, table_data, text_data,
                   table_output_path, fs, trace, io_error, result,
                   gateway_call, run, choices, first>>

SpecPageNames == InitPageNames /\ [][SavePage]_vars


\* ------------------------------------------------------------------------
\* Properties
\* ------------------------------------------------------------------------

Ext == get_file_type(file_path)
Done == pc = "done"
Succeeded == "success" \in DOMAIN result /\ result.success = TRUE
Raised == "exception" \in DOMAIN result
GatewayEvents == {i \in 1..Len(trace) : trace[i].op = "gateway"}
WriteEvents == {i \in 1..Len(trace) : trace[i].op \in {"write_json", "write_xlsx"}}
CalledFor(p, task) ==
    \E i \in GatewayEvents : trace[i].page = p /\ trace[i].task = task

\* C1: process_document never raises, whatever the gateway calls come to: it
\* ends by returning a mapping with a boolean `success` (the output folder
\* being writable)
C1_NeverRaises ==
    (Done /\ ~io_error) =>
        ("success" \in DOMAIN result /\ result.success \in BOOLEAN)

\* C2: a document whose lower-cased extension is not supported is rejected
\* with "Unsupported file type: <ext>" before any rasterizer call, gateway
\* call or file-system change
C2_UnsupportedRejected ==
    (Ext \notin {"pdf", "jpg", "jpeg", "png", "tiff", "docx"}) =>
        /\ trace = <<>>
        /\ fs = EmptyFs
        /\ pc \in {"process_document", "done"}
        /\ Done => result = [success |-> FALSE,
                             error |-> <<"Unsupported file type: ", Ext>>]

C2_Witness ==
    /\ Done
    /\ file_path.suffix = "txt"
    /\ result = [success |-> FALSE, error |-> <<"Unsupported file type: ", "txt">>]

\* C3: when the rasterizer returns no page for a pdf (docx), the run ends
\* with "Failed to convert PDF (DOCX) to images", issues no gateway call and
\* writes neither the text JSON nor the spreadsheet
C3_EmptyConversionFails ==
    (\E i \in 1..Len(trace) :
        trace[i].op \in {"pdf_to_images", "docx_to_images"} /\ ~trace[i].ok) =>
        /\ Done
        /\ Ext = "pdf" =>
              result = [success |-> FALSE,
                        error |-> <<"Failed to convert ", "PDF", " to images">>]
        /\ Ext = "docx" =>
              result = [success |-> FALSE,
                        error |-> <<"Failed to convert ", "DOCX", " to images">>]
        /\ GatewayEvents = {}
        /\ ~fs.json.exists
        /\ ~fs.xlsx.exists

C3_Witness ==
    /\ Done
    /\ Ext = "docx"
    /\ image_paths = <<>>
    /\ fs.folder
    /\ result.success = FALSE

\* C4: for a pdf or docx with n >= 1 pages a failed gateway call never stops
\* the run: the run ends with success = true and every page got its
\* classification and its text-extraction call, unless it was stopped by
\* something that is not a failed call: the output file could not be
\* written, or a page whose text extraction succeeded could not be folded
C4_FailedCallsNeverStop ==
    (Done /\ Ext \in {"pdf", "docx"} /\ image_paths # <<>>) =>
        \/ /\ Succeeded
           /\ \A p \in 1..Len(image_paths) :
                 CalledFor(p, "document_analysis") /\ CalledFor(p, "text_extraction")
        \/ /\ result = [exception |-> "OSError"]
           /\ io_error
        \/ /\ result = [exception |-> "TypeError"]
           /\ \E i \in GatewayEvents :
                 /\ trace[i].page = page
                 /\ trace[i].task = "text_extraction"
                 /\ trace[i].ok

\* every call of a two-page run failed and the run succeeded
C4_Witness ==
    /\ Done
    /\ Ext = "pdf"
    /\ Len(image_paths) = 2
    /\ Cardinality(GatewayEvents) = 4
    /\ \A i \in GatewayEvents : ~trace[i].ok
    /\ Succeeded

FirstBrace(raw) == CHOOSE i \in 1..Len(raw) :
                       raw[i] = "{" /\ \A j \in 1..(i - 1) : raw[j] # "{"
LastBrace(raw) == CHOOSE i \in 1..Len(raw) :
                      raw[i] = "}" /\ \A j \in (i + 1)..Len(raw) : raw[j] # "}"
HasBracePair(raw) ==
    (\E i \in 1..Len(raw) : raw[i] = "{") /\ (\E i \in 1..Len(raw) : raw[i] = "}")
\* the tokens from the first { to the last } (none when the } comes first)
BraceSpan(raw) ==
    [i \in 1..(LastBrace(raw) - FirstBrace(raw) + 1) |-> raw[FirstBrace(raw) + i - 1]]
RawTextPayload(raw) == <<[t |-> "str", v |-> <<raw>>, k |-> <<"text">>]>>

C6_PayloadIffSuccess ==
    gateway_call # Unset =>
        LET r == gateway_call.result
        IN  /\ ("data" \in DOMAIN r) <=> r.success
            /\ ("error" \in DOMAIN r) <=> ~r.success
            /\ gateway_call.backend.kind \in
                  {"image_unreadable", "connection_error", "http_error",
                   "body_not_json"} =>
                  (~r.success /\ "error" \in DOMAIN r /\ "data" \notin DOMAIN r)

C6_Witness ==
    /\ gateway_call # Unset
    /\ gateway_call.task = "table_extraction"
    /\ gateway_call.backend.kind = "http_error"
    /\ ~gateway_call.result.success
    /\ "error" \in DOMAIN gateway_call.result

\* the classification's raw text mentions "table" in some case
MentionsTable(a) ==
    /\ "raw_response" \in DOMAIN a
    /\ \E i \in 1..Len(a.raw_response) :
          a.raw_response[i] \in {"table", "Table", "TABLE",
                                 "tables", "Tables", "TABLES"}

\* the step issues a table-extraction call for page p
IssuesTableCall(p) ==
    \E i \in (Len(trace) + 1)..Len(trace') :
        /\ trace'[i].op = "gateway"
        /\ trace'[i].task = "table_extraction"
        /\ trace'[i].page = p

\* C7: on every page of every kind of document the table-extraction call is
\* issued iff the classification's raw text contains "table" in any case; a
\* failed classification has no raw text and issues none
C7_TableCallIffMentioned ==
    [][ /\ pc = "table" => (IssuesTableCall(page) <=> MentionsTable(analysis))
        /\ pc # "table" => \A p \in 0..MaxPages : ~IssuesTableCall(p)
      ]_vars

\* page 2's classification says "... a table of contents"
C7_Witness ==
    /\ pc = "store"
    /\ page = 2
    /\ analysis.success
    /\ analysis.raw_response =
          <<"this", "document", "has", "a", "table", "of", "contents">>
    /\ trace[Len(trace)].task = "table_extraction"
    /\ trace[Len(trace)].page = 2

TaskRank(task) ==
    CASE task = "document_analysis" -> 1
      [] task = "text_extraction" -> 2
      [] task = "table_extraction" -> 3

\* the number of pages of the document in hand
PageCount == IF Ext \in {"pdf", "docx"} THEN Len(image_paths) ELSE 1

\* C8: gateway calls go in page order and, within a page, classification,
\* text extraction, table extraction; a page's calls start after the page
\* before has had its calls, and no artifact is written before the last
\* page's calls
C8_CallOrder ==
    /\ \A a, b \in GatewayEvents :
          a < b => \/ trace[a].page < trace[b].page
                   \/ /\ trace[a].page = trace[b].page
                      /\ TaskRank(trace[a].task) < TaskRank(trace[b].task)
    /\ \A b \in GatewayEvents :
          /\ trace[b].task # "document_analysis" =>
                \E a \in GatewayEvents :
                    /\ a < b
                    /\ trace[a].page = trace[b].page
                    /\ TaskRank(trace[a].task) = TaskRank(trace[b].task) - 1
          /\ (trace[b].task = "document_analysis" /\ trace[b].page > 1) =>
                \E a \in GatewayEvents :
                    /\ a < b
                    /\ trace[a].page = trace[b].page - 1
                    /\ trace[a].task = "text_extraction"
    /\ \A w \in WriteEvents :
          /\ \A g \in GatewayEvents : g < w
          /\ \A p \in 1..PageCount :
                CalledFor(p, "document_analysis") /\ CalledFor(p, "text_extraction")

C8_Witness ==
    /\ Done
    /\ Ext = "docx"
    /\ Len(image_paths) = 2
    /\ CalledFor(1, "table_extraction")
    /\ CalledFor(2, "table_extraction")
    /\ fs.json.exists
    /\ fs.xlsx.exists

\* what a page's payload gives the artifact: its headers list, and its
\* content list or else its lone text
PageHeaders(d) == IF HasKey(d, HEADERS) THEN Get(d, HEADERS).v ELSE <<>>
PageContent(d) ==
    IF HasKey(d, CONTENT) THEN Get(d, CONTENT).v
    ELSE IF HasKey(d, TEXT) THEN <<StrJson(Get(d, TEXT).v[1])>>
    ELSE <<>>

RECURSIVE AllHeaders(_)
AllHeaders(rs) ==
    IF rs = <<>> THEN <<>>
    ELSE PageHeaders(Head(rs).text_data) \o AllHeaders(Tail(rs))

RECURSIVE AllContent(_)
AllContent(rs) ==
    IF rs = <<>> THEN <<>>
    ELSE PageContent(Head(rs).text_data) \o AllContent(Tail(rs))

C10_OneResultPerPage ==
    (Done /\ Ext \in {"pdf", "docx"} /\ Succeeded) =>
        /\ Len(result.results) = result.pages_processed
        /\ \A k \in 1..Len(result.results) : result.results[k].page = k

\* C11: after rasterization succeeded, the text JSON artifact is written on
\* every run (as {headers: [], content: []} when every text-extraction call
\* failed), the spreadsheet only when a table entry was collected, and the
\* result's table_output_path is non-null exactly when one was collected
\* (the output folder being writable)
C11_TextArtifactAlwaysWritten ==
    (Done /\ MultiPage /\ image_paths # <<>> /\ ~io_error) =>
        /\ fs.json.exists
        /\ (\A i \in GatewayEvents :
               trace[i].task = "text_extraction" => ~trace[i].ok) =>
              fs.json.content = JsonDump(EmptyTextData)
        /\ fs.xlsx.exists => table_data # <<>>
        /\ Succeeded => (result.table_output_path # NonePath <=> table_data # <<>>)

\* C12: a failed write of an output artifact never aborts process_document,
\* and a success result names no artifact that was not written: the path of
\* an artifact whose write failed is null
C12_WriteFailureGivesNullPath ==
    (Done /\ Handling # "unsupported" /\ (MultiPage => image_paths # <<>>)) =>
        /\ result # [exception |-> "OSError"]
        /\ Succeeded =>
              /\ result.text_output_path # NonePath => fs.json.exists
              /\ result.table_output_path # NonePath =>
                    fs.xlsx.exists /\ fs.xlsx.sheets # <<>>

\* the members of a mapping payload
Members(c) == JsonLoads(c.v[1]).d

\* C13: format_table_output builds an entry's sheet by the first rule that
\* matches its payload: a sequence as rows; else `rows`; else `data`; else
\* `headers` with `values`; else the mapping converted directly
C13_RulePriority ==
    Done =>
        \A i \in 1..Len(fs.xlsx.sheets) :
            LET c == table_data[i].data
                sheet == fs.xlsx.sheets[i]
                Built(df) ==
                    df.ok /\ sheet.columns = df.columns /\ sheet.cells = df.cells
            IN  /\ c.t = "list" => Built(DataFrame(c))
                /\ (c.t = "dict" /\ HasKey(Members(c), ROWS)) =>
                      Built(DataFrame(Get(Members(c), ROWS)))
                /\ (c.t = "dict" /\ ~HasKey(Members(c), ROWS)
                      /\ HasKey(Members(c), DATA)) =>
                      Built(DataFrame(Get(Members(c), DATA)))
                /\ (c.t = "dict" /\ ~HasKey(Members(c), ROWS)
                      /\ ~HasKey(Members(c), DATA)
                      /\ HasKey(Members(c), HEADERS) /\ HasKey(Members(c), VALUES)) =>
                      Built(DataFrameColumns(Get(Members(c), VALUES),
                                             Get(Members(c), HEADERS)))
                /\ (c.t = "dict" /\ ~HasKey(Members(c), ROWS)
                      /\ ~HasKey(Members(c), DATA)
                      /\ ~(HasKey(Members(c), HEADERS) /\ HasKey(Members(c), VALUES))) =>
                      \/ Built(DataFrame(c))
                      \/ ~DataFrame(c).ok
                         /\ Built(ErrorFrame("Could not parse table data"))

C13_Witness ==
    /\ Done
    /\ Len(table_data) = 2
    /\ HasKey(Members(table_data[1].data), ROWS)
    /\ HasKey(Members(table_data[1].data), DATA)
    /\ HasKey(Members(table_data[2].data), DATA)
    /\ HasKey(Members(table_data[2].data), HEADERS)
    /\ HasKey(Members(table_data[2].data), VALUES)
    /\ Len(fs.xlsx.sheets) = 2
    /\ fs.xlsx.sheets[1].columns = <<(<<"h">>)>>
    /\ fs.xlsx.sheets[2].columns = <<(<<"g">>)>>

\* whether the conversion of a payload fails under the rule selected for it
ConversionFails(c) ==
    IF c.t = "list" THEN ~DataFrame(c).ok
    ELSE IF c.t # "dict" THEN TRUE
    ELSE IF HasKey(Members(c), ROWS) THEN ~DataFrame(Get(Members(c), ROWS)).ok
    ELSE IF HasKey(Members(c), DATA) THEN ~DataFrame(Get(Members(c), DATA)).ok
    ELSE IF HasKey(Members(c), HEADERS) /\ HasKey(Members(c), VALUES)
    THEN ~DataFrameColumns(Get(Members(c), VALUES), Get(Members(c), HEADERS)).ok
    ELSE ~DataFrame(c).ok

\* C14: format_table_output gives every table entry a sheet, for an entry
\* whose conversion fails a one-cell sheet with an error marker, and
\* returns the workbook's path (the file being writable)
C14_ErrorSheetOnFailure ==
    (Done /\ ~io_error /\ table_data # <<>>) =>
        /\ result.returned # NonePath
        /\ Len(fs.xlsx.sheets) = Len(table_data)
        /\ \A i \in 1..Len(table_data) :
              (i <= Len(fs.xlsx.sheets) /\ ConversionFails(table_data[i].data)) =>
                 /\ fs.xlsx.sheets[i].columns = <<(<<"Error">>)>>
                 /\ Len(fs.xlsx.sheets[i].cells) = 1
                 /\ Len(fs.xlsx.sheets[i].cells[1]) = 1

\* C15: the spreadsheet of a document has one sheet per table entry, named
\* "Page N" for the entry's page, in increasing page order, and only the
\* pages whose table was detected and extracted have one (the output folder
\* being writable)
C15_OneSheetPerTableEntry ==
    (Done /\ MultiPage /\ Succeeded /\ ~io_error /\ table_data # <<>>) =>
        LET TableExtracted(p) ==
                \E i \in GatewayEvents :
                    /\ trace[i].page = p
                    /\ trace[i].task = "table_extraction"
                    /\ trace[i].ok
        IN  /\ Len(fs.xlsx.sheets) = Len(table_data)
            /\ \A i \in 1..Len(table_data) :
                  /\ i <= Len(fs.xlsx.sheets) =>
                        fs.xlsx.sheets[i].name = <<"Page ", table_data[i].page>>
                  /\ TableExtracted(table_data[i].page)
                  /\ \A j \in 1..Len(table_data) :
                        i < j => table_data[i].page < table_data[j].page
            /\ \A p \in 1..Len(image_paths) :
                  TableExtracted(p) =>
                     \E i \in 1..Len(table_data) : table_data[i].page = p

\* C16: the text JSON artifact of a successful call parses back to a mapping
\* whose `headers` and `content` are both present and both sequences
C16_TextArtifactRoundTrip ==
    (Done /\ Succeeded) =>
        LET parsed == JsonLoads(fs.json.content)
        IN  /\ parsed.ok
            /\ parsed.t = "dict"
            /\ HasKey(parsed.d, HEADERS)
            /\ Get(parsed.d, HEADERS).t = "list"
            /\ HasKey(parsed.d, CONTENT)
            /\ Get(parsed.d, CONTENT).t = "list"

\* C17: a successful call on an image reports document type `image` and no
\* page-image folder, carries one per-page analysis entry, and writes the
\* text artifact its page's payload folds to by the multi-page rule
C17_ImageFoldedAsOnePage ==
    (Done /\ Handling = "_process_image" /\ Succeeded) =>
        /\ result.document_type = "image"
        /\ "screenshot_folder" \notin DOMAIN result
        /\ \/ "results" \in DOMAIN result /\ Len(result.results) = 1
           \/ "analysis" \in DOMAIN result
        /\ ~AggregateRaises(text_result.data)
        /\ fs.json.content = JsonDump(Aggregate(EmptyTextData, text_result.data))

\* C18: a second call on the same document, the backend answering as in the
\* first, leaves the text JSON artifact and the spreadsheet as the first
\* call left them (the output folder being writable)
C18_SecondRunLeavesSameArtifacts ==
    (run = 2 /\ Done /\ ~io_error) =>
        /\ fs.json = first.json
        /\ fs.xlsx = first.xlsx

C18_Witness ==
    /\ run = 2
    /\ Done
    /\ Succeeded
    /\ Ext = "pdf"
    /\ ~io_error
    /\ fs.json.content # JsonDump(EmptyTextData)
    /\ fs.xlsx.exists
    /\ fs.xlsx.sheets # <<>>
    /\ fs.json = first.json
    /\ fs.xlsx = first.xlsx

\* C19: a returned result is either success = false with an error and no
\* output-path field, or success = true with a text_output_path and the
\* document_type of the extension's handling class
C19_ResultShapes ==
    (Done /\ "success" \in DOMAIN result) =>
        \/ /\ result.success = FALSE
           /\ DOMAIN result = {"success", "error"}
           /\ result.error # <<>>
        \/ /\ result.success = TRUE
           /\ "error" \notin DOMAIN result
           /\ result.text_output_path # NonePath
           /\ result.document_type =
                 CASE Ext = "pdf" -> "pdf"
                   [] Ext \in {"jpg", "jpeg", "png", "tiff"} -> "image"
                   [] Ext = "docx" -> "docx"
                   [] OTHER -> "none"

C19_Witness ==
    /\ Done
    /\ file_path.suffix = "PNG"
    /\ Succeeded
    /\ result.document_type = "image"
    /\ result.text_output_path = <<"report", "json">>

\* C20: pdf_to_images and docx_to_images never raise: they return the page
\* images 1..n in page order, or the empty list when the conversion fails
\* at any point, a failed save of a later page included
C20_RasterizerNeverRaises ==
    (Done /\ choices # <<>>) =>
        LET n == IF file_path.suffix = "pdf" THEN choices[1].pages
                 ELSE DocxChunks(choices[1].pages)
        IN  /\ "returned" \in DOMAIN result
            /\ \/ result.returned = <<>>
               \/ result.returned = [k \in 1..n |-> k]
            /\ choices[1].save_fails_at \in 1..n => result.returned = <<>>

\* C21: folding a page whose text-extraction call succeeded appends the
\* payload's headers, if present, to the running headers, its content, if
\* present, to the running content, and its text to the running content
\* only when text is the payload's only field
C21_TextOnlyWhenOnlyField ==
    [][ (pc = "store" /\ pc' # "done" /\ TextSucceeded(text_result)) =>
          LET data == text_result.data
              h == IF HasKey(data, HEADERS)
                   THEN DictSet(text_data, HEADERS,
                                list_extend(Get(text_data, HEADERS),
                                            Get(data, HEADERS)))
                   ELSE text_data
          IN  text_data' =
                 IF HasKey(data, CONTENT)
                 THEN DictSet(h, CONTENT,
                              list_extend(Get(h, CONTENT), Get(data, CONTENT)))
                 ELSE IF HasKey(data, TEXT) /\ Len(data) = 1
                 THEN DictSet(h, CONTENT,
                              list_append(Get(h, CONTENT), Get(data, TEXT)))
                 ELSE h
      ]_vars

\* C22: at every point of a multi-page run the table entries are exactly
\* the pages processed so far whose table was detected and whose
\* table-extraction call succeeded, in increasing page order and within
\* 1..n, whatever the page's text-extraction call came to
C22_TableEntriesMatchPages ==
    MultiPage =>
        /\ \A i \in 1..Len(table_data) :
              /\ table_data[i].page \in 1..Len(image_paths)
              /\ table_data[i].page <= page
              /\ \A j \in 1..Len(table_data) :
                    i < j => table_data[i].page < table_data[j].page
        /\ \A p \in 1..Len(image_paths) :
              (\E i \in 1..Len(table_data) : table_data[i].page = p) <=>
              (\E e \in GatewayEvents :
                  /\ trace[e].page = p
                  /\ trace[e].task = "table_extraction"
                  /\ trace[e].ok)
        /\ pc = "store" =>
              ((\E i \in 1..Len(table_data) : table_data[i].page = page) <=>
               (/\ MentionsTable(analysis)
                /\ table_result # Unset
                /\ table_result.success))

\* page 2 of 2 has the only table entry and no text call succeeded
C22_Witness ==
    /\ Done
    /\ Succeeded
    /\ Len(image_paths) = 2
    /\ Len(table_data) = 1
    /\ table_data[1].page = 2
    /\ results = <<>>
    /\ \A e \in GatewayEvents : trace[e].task = "text_extraction" => ~trace[e].ok

\* C23: a gateway call is never repeated, and a run over n rasterized
\* pages of which k had a table detected sends exactly 2n + k generation
\* requests, between 2n and 3n
C23_RequestsPerRun ==
    (Done /\ MultiPage /\ image_paths # <<>>) =>
        LET n == Len(image_paths)
            k == Cardinality({p \in 1..n : CalledFor(p, "table_extraction")})
        IN  /\ Cardinality(GatewayEvents) = 2 * n + k
            /\ Cardinality(GatewayEvents) \in (2 * n)..(3 * n)
            /\ \A i, j \in GatewayEvents :
                  (trace[i].page = trace[j].page /\ trace[i].task = trace[j].task)
                     => i = j

\* C24: the page file names sort as strings in the order of their page
\* indices: the name of every page is greater than the name of every
\* earlier page (Python compares strings character by character, by code
\* point; a proper prefix is smaller)
C24_NamesSortByPage ==
    LET Ord(ch) ==
            CASE ch = "." -> 46
              [] ch = "0" -> 48 [] ch = "1" -> 49 [] ch = "2" -> 50
              [] ch = "3" -> 51 [] ch = "4" -> 52 [] ch = "5" -> 53
              [] ch = "6" -> 54 [] ch = "7" -> 55 [] ch = "8" -> 56
              [] ch = "9" -> 57
              [] OTHER -> 112
        Less(a, b) ==
            \E i \in 1..Len(b) :
                /\ i <= Len(a) + 1
                /\ \A j \in 1..(i - 1) : a[j] = b[j]
                /\ (i = Len(a) + 1 \/ Ord(a[i]) < Ord(b[i]))
    IN  pc = "save_page" =>
           \A k \in 1..(Len(image_paths) - 1) :
               Less(image_paths[k], image_paths[Len(image_paths)])

C26_TempFileRemoved ==
    (Done /\ Handling = "_process_image") =>
        /\ ~fs.temp
        /\ (\E i \in 1..Len(trace) :
               trace[i].op = "preprocess_image" /\ ~trace[i].ok) =>
              processed_image = "original"

\* C27: after two successful calls for one stem, <stem>.xlsx exists exactly
\* when the later call returned a table_output_path: a call with no table
\* entries leaves no spreadsheet of the earlier call behind
C27_SpreadsheetOfLatestRun ==
    (run = 3 /\ Done /\ Succeeded /\ ~io_error
       /\ "success" \in DOMAIN first.result /\ first.result.success) =>
        (fs.xlsx.exists <=> result.table_output_path # NonePath)

\* C28: two documents of different file names processed one after the other
\* by the same DocumentProcessor, the stem shared and the extension not: the
\* paths the first call returned still name the files it produced
C28_PathsNameOwnFiles ==
    (run = 3 /\ Done /\ Succeeded /\ ~io_error
       /\ "success" \in DOMAIN first.result /\ first.result.success
       /\ first.suffix # file_path.suffix) =>
        /\ fs.json = first.json
        /\ first.result.table_output_path # NonePath => fs.xlsx = first.xlsx

====
